---- MODULE Spec2Model ----
(***************************************************************************)
(* Model of the ESPN+ guide generator (generate_guide.py) and of the part  *)
(* of the scraper (espn_scraper.py) that fills the event store.            *)
(*                                                                         *)
(* Time is counted in ticks; TicksPerSec ticks make one second, so that a  *)
(* clock reading or a stored timestamp may carry a fraction of a second,   *)
(* which format_datetime_xmltv and SQLite's datetime() both drop.          *)
(***************************************************************************)
EXTENDS Integers, Sequences, FiniteSets, TLC

VARIABLES now, dbExists, store, scraped, m3uFile, xmlFile, run

vars == <<now, dbExists, store, scraped, m3uFile, xmlFile, run>>

---------------------------------------------------------------------------
(* Bounds of the model *)

\* the scraper receives airings for at most this many event ids
MaxEvents == 2

\* clock resolution: ticks per second
TicksPerSec == 2

Second == TicksPerSec
Minute == 60 * Second
Hour   == 60 * Minute

---------------------------------------------------------------------------
(* Program constants *)

STANDBY_BLOCK_DURATION_MIN == 30

MAX_STANDBY_HOURS == 6

EVENT_ENDED_DURATION_MIN == 30

\* fault variant: a grace shorter than the hourly interval between runs
grace_period_min_short == 65 - 20

\* grace_period_min = 65
grace_period_min == 65

---------------------------------------------------------------------------
(* Timestamps as stored in the TEXT columns start_utc / stop_utc:          *)
(* null (SQL NULL, or a missing API field), or an ISO-8601 string denoting *)
(* the instant t, with a trailing 'Z' (aware) or with no offset (naive).   *)

TS(t, aware) == [null |-> FALSE, t |-> t, aware |-> aware]

NULL_TS == [null |-> TRUE, t |-> 0, aware |-> FALSE]

Min2(a, b) == IF a <= b THEN a ELSE b

\* str.lower() on the strings of the model
Lower(s) ==
    CASE s = "Sports"       -> "sports"
      [] s = "SPORTS"       -> "sports"
      [] s = "Sports event" -> "sports event"
      [] s = "Sports Event" -> "sports event"
      [] s = "Hockey"       -> "hockey"
      [] s = "HOCKEY"       -> "hockey"
      [] s = "NHL"          -> "nhl"
      [] OTHER              -> s

\* str.strip() on the strings of the model
Strip(s) ==
    CASE s = " "       -> ""
      [] s = " NHL "   -> "NHL"
      [] OTHER         -> s

---------------------------------------------------------------------------
(* The inputs: the clock readings and the airings the remote API returns   *)

\* start of the reference event, in minutes after the origin of the clock
BaseStartMin == 7 * 60

BaseStart == BaseStartMin * Minute

\* the minutes at which a generator run may read the clock
Instants == {0, 60, 375, 405, 420, 525, 540, 585, 600, 605}

ClockValues == {m * Minute : m \in Instants}

\* ticks that pass between the query and generate_xmltv's clock reading
Elapsed == 0..1

Ids == 1..MaxEvents

BaseAiring(i) ==
    [id |-> i, packages |-> {"ESPN_PLUS"}, name |-> "A",
     sport |-> "Hockey", league |-> " NHL ",
     startDateTime |-> TS(BaseStart, TRUE),
     endDateTime   |-> TS(BaseStart + 2 * Hour, TRUE)]

\* the airings differing from the reference airing in their times
TimeAirings(i) ==
    { [BaseAiring(i) EXCEPT !.endDateTime = TS(BaseStart, TRUE)],
      [BaseAiring(i) EXCEPT !.endDateTime = TS(BaseStart - 30 * Minute, TRUE)],
      [BaseAiring(i) EXCEPT !.startDateTime = TS(BaseStart + 1, TRUE),
                            !.endDateTime = TS(BaseStart + 1 + 2 * Hour, TRUE)],
      [BaseAiring(i) EXCEPT !.startDateTime = TS(BaseStart, FALSE),
                            !.endDateTime = TS(BaseStart + 2 * Hour, FALSE)],
      [BaseAiring(i) EXCEPT !.startDateTime = NULL_TS],
      [BaseAiring(i) EXCEPT !.packages = {"ESPN1"}] }

\* the airings differing from the reference airing in their strings
TextAirings(i) ==
    { [BaseAiring(i) EXCEPT !.name = "B"] }
    \cup { [BaseAiring(i) EXCEPT !.sport = " "],
           [BaseAiring(i) EXCEPT !.league = "HOCKEY"],
           [BaseAiring(i) EXCEPT !.league = "Sports Event"] }

Airings(i) == TimeAirings(i) \cup TextAirings(i)

NoAiring == [id |-> 0, packages |-> {}, name |-> "", sport |-> "", league |-> "",
             startDateTime |-> NULL_TS, endDateTime |-> NULL_TS]

\* rows a store may hold before the scraper has run: the schema allows NULL
LegacyRows ==
    { [id |-> 1, sport |-> "Hockey", league |-> "NHL", title |-> "A",
       start_utc |-> NULL_TS, stop_utc |-> TS(BaseStart + 2 * Hour, TRUE)],
      [id |-> 1, sport |-> "Hockey", league |-> "NHL", title |-> "A",
       start_utc |-> TS(BaseStart, TRUE), stop_utc |-> NULL_TS] }

\* run: what the last generator run on the present store read and did
NoRun == [started |-> FALSE, db_found |-> FALSE, query_now |-> 0, now |-> 0,
          events |-> <<>>, wrote_m3u |-> FALSE, wrote_xml |-> FALSE,
          exit_status |-> 0, prev_query_now |-> -1]

NoFile == [exists |-> FALSE, channels |-> <<>>, content |-> <<>>]

---------------------------------------------------------------------------
(* espn_scraper.py: parse_and_store                                        *)

\* the row stored for one airing, or no row when the airing is skipped
AiringRows(a) ==
    LET pid    == a.id
        title  == a.name
        sport  == IF Strip(a.sport) = "" THEN "sports" ELSE Strip(a.sport)
        league == Strip(a.league)
        start  == a.startDateTime
        stop   == a.endDateTime
    IN  IF "ESPN_PLUS" \notin a.packages THEN {}
        ELSE IF pid = 0 \/ start.null \/ stop.null THEN {}
        ELSE {[id |-> pid, sport |-> sport, league |-> league, title |-> title,
               start_utc |-> start, stop_utc |-> stop]}

\* INSERT OR REPLACE of the rows of a batch of airings, keyed by id
Upsert(st, airings) ==
    LET new == UNION {AiringRows(a) : a \in airings}
    IN  {r \in st : \A n \in new : n.id # r.id} \cup new

parse_and_store ==
    /\ ~scraped
    /\ \E batch \in [Ids -> UNION {Airings(i) : i \in Ids} \cup {NoAiring}] :
          /\ \A i \in Ids : batch[i] = NoAiring \/ batch[i] \in Airings(i)
          /\ store' = Upsert(store, {batch[i] : i \in Ids})
    /\ dbExists' = TRUE
    /\ scraped' = TRUE
    /\ run' = NoRun
    /\ UNCHANGED <<now, m3uFile, xmlFile>>

---------------------------------------------------------------------------
(* generate_guide.py: the selection query                                  *)

\* SQLite datetime(x): NULL for NULL, else the instant cut to whole seconds
\* (in seconds); an offset-less string is read as UTC
sql_datetime(ts) == ts.t \div TicksPerSec

\* ORDER BY start_utc compares the stored strings byte by byte: after the
\* seconds come "" | ".f" | ".fZ" | "Z", and '.' sorts before 'Z'
SuffixRank(ts) ==
    LET frac == ts.t % TicksPerSec
    IN  IF frac = 0 THEN (IF ts.aware THEN 2 * TicksPerSec + 1 ELSE 0)
        ELSE 2 * frac + (IF ts.aware THEN 1 ELSE 0)

TitleRank(s) == CASE s = "A" -> 1 [] s = "B" -> 2 [] OTHER -> 0

RowKey(r) == <<r.start_utc.t \div TicksPerSec, SuffixRank(r.start_utc),
               TitleRank(r.title), r.id>>

RECURSIVE LexLess(_, _)
LexLess(a, b) ==
    IF a = <<>> THEN FALSE
    ELSE IF Head(a) # Head(b) THEN Head(a) < Head(b)
    ELSE LexLess(Tail(a), Tail(b))

RECURSIVE OrderBy(_)
OrderBy(rows) ==
    IF rows = {} THEN <<>>
    ELSE LET m == CHOOSE x \in rows :
                     \A y \in rows \ {x} : LexLess(RowKey(x), RowKey(y))
         IN  <<m>> \o OrderBy(rows \ {m})

\* the WHERE clause, evaluated at the clock reading qnow
Selected(r, qnow) ==
    /\ ~r.stop_utc.null
    /\ ~r.start_utc.null
    /\ sql_datetime(r.stop_utc) + grace_period_min * 60 > qnow \div TicksPerSec
    /\ sql_datetime(r.start_utc) <= qnow \div TicksPerSec + MAX_STANDBY_HOURS * 3600

get_live_and_upcoming_events(st, qnow) ==
    OrderBy({r \in st : Selected(r, qnow)})


---------------------------------------------------------------------------
(* generate_guide.py: helpers                                              *)

\* datetime.fromisoformat: the instant, and whether it carries an offset
parse_iso_datetime(ts) == [t |-> ts.t, aware |-> ts.aware]

\* strftime('%Y%m%d%H%M%S +0000'): whole seconds, the fraction is dropped
format_datetime_xmltv(t) == t \div TicksPerSec

\* fault variant: enumerate(events) without the start index 1
generate_m3u_zero_based(events) ==
    [idx \in 1..Len(events) |->
        [tvg_id |-> idx - 1, tvg_name |-> events[idx].title,
         url |-> events[idx].id]]

generate_m3u(events) ==
    [idx \in 1..Len(events) |->
        [tvg_id |-> idx, tvg_name |-> events[idx].title,
         url |-> events[idx].id]]

\* the body of the loop of generate_standby_blocks: remaining iterations
\* of range(blocks_needed), the running current_time, the blocks so far
RECURSIVE StandbyLoop(_, _, _, _)
StandbyLoop(remaining, current_time, start_time, blocks) ==
    IF remaining = 0 THEN blocks
    ELSE LET block_start == current_time
             plus        == current_time + STANDBY_BLOCK_DURATION_MIN * Minute
             block_stop  == IF plus > start_time THEN start_time ELSE plus
             appended    == Append(blocks,
                               [start |-> format_datetime_xmltv(block_start),
                                stop  |-> format_datetime_xmltv(block_stop),
                                title |-> "STAND BY"])
         IN  IF block_stop >= start_time THEN appended
             ELSE StandbyLoop(remaining - 1, block_stop, start_time, appended)

\* fault variant: the operands of the subtraction are swapped
generate_standby_blocks_swapped(start_time, now_) ==
    LET time_until       == now_ - start_time
        max_standby      == MAX_STANDBY_HOURS * Hour
        standby_duration == Min2(time_until, max_standby)
        blocks_needed    == standby_duration \div (STANDBY_BLOCK_DURATION_MIN * Minute)
    IN  IF time_until <= 0 THEN <<>>
        ELSE IF standby_duration <= 0 THEN <<>>
        ELSE StandbyLoop(blocks_needed, now_, start_time, <<>>)

\* fault variant: the number of blocks is rounded up
generate_standby_blocks_ceil(start_time, now_) ==
    LET time_until       == start_time - now_
        max_standby      == MAX_STANDBY_HOURS * Hour
        standby_duration == Min2(time_until, max_standby)
        block            == STANDBY_BLOCK_DURATION_MIN * Minute
        blocks_needed    == (standby_duration + block - 1) \div block
    IN  IF time_until <= 0 THEN <<>>
        ELSE IF standby_duration <= 0 THEN <<>>
        ELSE StandbyLoop(blocks_needed, now_, start_time, <<>>)

generate_standby_blocks(start_time, now_) ==
    LET time_until       == start_time - now_
        max_standby      == MAX_STANDBY_HOURS * Hour
        standby_duration == Min2(time_until, max_standby)
        blocks_needed    == standby_duration \div (STANDBY_BLOCK_DURATION_MIN * Minute)
    IN  IF time_until <= 0 THEN <<>>
        ELSE IF standby_duration <= 0 THEN <<>>
        ELSE StandbyLoop(blocks_needed, now_, start_time, <<>>)

\* fault variant: the block begins one block length after the event's end
generate_event_ended_block_late(end_time) ==
    [start |-> format_datetime_xmltv(end_time + EVENT_ENDED_DURATION_MIN * Minute),
     stop  |-> format_datetime_xmltv(end_time + 2 * EVENT_ENDED_DURATION_MIN * Minute),
     title |-> "EVENT ENDED"]

generate_event_ended_block(end_time) ==
    [start |-> format_datetime_xmltv(end_time),
     stop  |-> format_datetime_xmltv(end_time + EVENT_ENDED_DURATION_MIN * Minute),
     title |-> "EVENT ENDED"]

\* fault variant: the event still counts as live at its stop instant
is_live_inclusive(start_time, stop_time, now_) ==
    start_time <= now_ /\ now_ <= stop_time

\* is_live = start_time <= now < stop_time
is_live(start_time, stop_time, now_) ==
    start_time <= now_ /\ now_ < stop_time

\* the category elements of the event's programme
Categories(sport, league) ==
    <<"Sports", "Sports event">>
    \o (IF sport # "" THEN <<sport>> ELSE <<>>)
    \o (IF league # "" /\ Lower(league) \notin {Lower(sport), "sports", ""}
        THEN <<league>> ELSE <<>>)

\* comparing an offset-naive datetime with the aware now raises TypeError;
\* start_time <= now < stop_time compares stop_time only if start_time <= now
Raises(event, now_) ==
    \/ ~event.start_utc.aware
    \/ event.start_utc.t <= now_ /\ ~event.stop_utc.aware

\* the programme elements of one event, in document order
Programmes(idx, event, now_) ==
    LET start_time == parse_iso_datetime(event.start_utc).t
        stop_time  == parse_iso_datetime(event.stop_utc).t
        live       == is_live(start_time, stop_time, now_)
        ended      == generate_event_ended_block(stop_time)
        standby    == generate_standby_blocks(start_time, now_)
    IN  [k \in 1..Len(standby) |->
            [channel |-> idx, start |-> standby[k].start, stop |-> standby[k].stop,
             title |-> standby[k].title, live |-> FALSE, desc |-> "",
             category |-> <<>>]]
        \o << [channel |-> idx,
               start |-> format_datetime_xmltv(start_time),
               stop  |-> format_datetime_xmltv(stop_time),
               title |-> event.title, live |-> live,
               desc  |-> IF live THEN "LIVE NOW" ELSE "START TIME",
               category |-> Categories(event.sport, event.league)] >>
        \o << [channel |-> idx, start |-> ended.start, stop |-> ended.stop,
               title |-> ended.title, live |-> FALSE, desc |-> "",
               category |-> <<>>] >>

RECURSIVE AllProgrammes(_, _, _)
AllProgrammes(idx, events, now_) ==
    IF idx > Len(events) THEN <<>>
    ELSE Programmes(idx, events[idx], now_) \o AllProgrammes(idx + 1, events, now_)

\* the guide document, or raised when building it raises
generate_xmltv(events, now_) ==
    IF \E idx \in 1..Len(events) : Raises(events[idx], now_)
    THEN [raised |-> TRUE, channels |-> <<>>, programmes |-> <<>>]
    ELSE [raised |-> FALSE,
          channels |-> [idx \in 1..Len(events) |->
                           [id |-> idx, display_name |-> events[idx].title]],
          programmes |-> AllProgrammes(1, events, now_)]


---------------------------------------------------------------------------
(* generate_guide.py: main                                                 *)

\* fault variant: main goes on to write when the query returned nothing
main_early_exit_no_empty_check(db_found, events) ==
    IF ~db_found THEN 1 ELSE -1

\* the exits of main before any output: 1 when the store is absent, 0 when
\* the query returns no events, -1 when main goes on
main_early_exit(db_found, events) ==
    IF ~db_found THEN 1
    ELSE IF events = <<>> THEN 0
    ELSE -1

\* one run of main; qnow is the clock the query reads, xnow (not earlier)
\* the clock generate_xmltv reads
main ==
    \E qnow \in {t \in ClockValues : t >= now}, d \in Elapsed :
    \E events \in {IF dbExists THEN get_live_and_upcoming_events(store, qnow)
                   ELSE <<>>} :
    \E early \in {main_early_exit(dbExists, events)} :
       LET xnow == qnow + d
           prev == IF run.started /\ run.db_found
                      /\ qnow - run.query_now <= 60 * Minute
                   THEN run.query_now ELSE -1
       IN  /\ IF early # -1
              THEN /\ run' = [started |-> TRUE, db_found |-> dbExists,
                              query_now |-> qnow, now |-> qnow, events |-> events,
                              wrote_m3u |-> FALSE, wrote_xml |-> FALSE,
                              exit_status |-> early, prev_query_now |-> prev]
                   /\ now' = qnow
                   /\ UNCHANGED <<m3uFile, xmlFile>>
              ELSE \E xml \in {generate_xmltv(events, xnow)} :
                   /\ m3uFile' = [exists |-> TRUE, channels |-> <<>>,
                                  content |-> generate_m3u(events)]
                   /\ xmlFile' = IF xml.raised THEN xmlFile
                                 ELSE [exists |-> TRUE, channels |-> xml.channels,
                                       content |-> xml.programmes]
                   /\ run' = [started |-> TRUE, db_found |-> dbExists,
                              query_now |-> qnow, now |-> xnow, events |-> events,
                              wrote_m3u |-> TRUE, wrote_xml |-> ~xml.raised,
                              exit_status |-> IF xml.raised THEN 1 ELSE 0,
                              prev_query_now |-> prev]
                   /\ now' = xnow
           /\ UNCHANGED <<dbExists, store, scraped>>

---------------------------------------------------------------------------
(* The specification *)

Init ==
    /\ now = 0
    /\ \/ dbExists = FALSE /\ store = {}
       \/ dbExists = TRUE /\ \E r \in LegacyRows : store = {r}
    /\ scraped = FALSE
    /\ m3uFile = NoFile
    /\ xmlFile = NoFile
    /\ run = NoRun

Next == parse_and_store \/ main

Spec == Init /\ [][Next]_vars


---------------------------------------------------------------------------
(* Reading the outputs of the last run *)

\* an instant at the resolution of the guide's timestamps
InSeconds(t) == t \div TicksPerSec

StandbyTitle == "STAND BY"
EndedTitle   == "EVENT ENDED"

ChannelProgrammes(xml, idx) == SelectSeq(xml.content, LAMBDA p : p.channel = idx)

StandByOf(xml, idx) ==
    SelectSeq(ChannelProgrammes(xml, idx), LAMBDA p : p.title = StandbyTitle)

EventEndedOf(xml, idx) ==
    SelectSeq(ChannelProgrammes(xml, idx), LAMBDA p : p.title = EndedTitle)

LiveEventOf(xml, idx) ==
    SelectSeq(ChannelProgrammes(xml, idx),
              LAMBDA p : p.title \notin {StandbyTitle, EndedTitle})

WellFormed(r) ==
    /\ ~r.start_utc.null
    /\ ~r.stop_utc.null
    /\ r.start_utc.t < r.stop_utc.t

\* half-open intervals [a.start, a.stop) and [b.start, b.stop) share an instant
Overlap(a, b) ==
    /\ a.start < a.stop
    /\ b.start < b.stop
    /\ a.start < b.stop
    /\ b.start < a.stop

\* blocks tile [from, to): first starts at from, each starts where the
\* previous stops, none is empty, the last stops at to
Tiles(blocks, from, to) ==
    /\ Len(blocks) >= 1
    /\ blocks[1].start = InSeconds(from)
    /\ \A k \in 1..Len(blocks) : blocks[k].start < blocks[k].stop
    /\ \A k \in 1..(Len(blocks) - 1) : blocks[k + 1].start = blocks[k].stop
    /\ blocks[Len(blocks)].stop = InSeconds(to)

---------------------------------------------------------------------------
(* The claims *)

\* C1: for every compiled event with 0 < start - now < max_standby, the
\* StandBy blocks of its channel exactly tile [now, start): first block at
\* now, contiguous, no overlap, last block stopping at start.
C1_StandbyTiles ==
    run.wrote_xml =>
      \A idx \in 1..Len(run.events) :
         LET d == run.events[idx].start_utc.t - run.now
         IN  (0 < d /\ d < MAX_STANDBY_HOURS * Hour)
             => Tiles(StandByOf(xmlFile, idx), run.now, run.events[idx].start_utc.t)

\* C2: an event of the store whose start or stop is missing, or whose
\* stop <= start, is not compiled: it is not among the selected events and
\* has no playlist entry, and it does not make the run fail.
C2_MalformedExcluded ==
    (run.started /\ run.db_found) =>
      /\ \A r \in store :
            ~WellFormed(r) =>
               /\ \A idx \in 1..Len(run.events) : run.events[idx] # r
               /\ run.wrote_m3u =>
                    \A k \in 1..Len(m3uFile.content) : m3uFile.content[k].url # r.id
      /\ (\A r \in store : r.start_utc.aware /\ r.stop_utc.aware)
            => run.exit_status = 0

\* C3: at the end of every run of main the playlist file and the guide file
\* have both been written by the run, or neither has.
C3_BothOrNeither == run.wrote_m3u = run.wrote_xml

\* C4: the category list of every programme of the guide holds no two
\* entries that are equal when compared case-insensitively.
C4_NoDuplicateCategories ==
    run.wrote_xml =>
      \A k \in 1..Len(xmlFile.content) :
         LET cat == xmlFile.content[k].category
         IN  \A i, j \in 1..Len(cat) : i < j => Lower(cat[i]) # Lower(cat[j])

\* C5: the programmes of every channel of the guide appear in
\* non-decreasing start order and no two of them overlap as half-open
\* intervals.
C5_SortedNoOverlap ==
    run.wrote_xml =>
      \A idx \in 1..Len(run.events) :
         LET ps == ChannelProgrammes(xmlFile, idx)
         IN  \A i, j \in 1..Len(ps) :
                i < j => ps[i].start <= ps[j].start /\ ~Overlap(ps[i], ps[j])

\* C6: an event whose start is further than max_standby after now when its
\* segments are synthesized gets no StandBy segment.
C6_NoStandbyBeyondMax ==
    run.wrote_xml =>
      \A idx \in 1..Len(run.events) :
         run.events[idx].start_utc.t - run.now > MAX_STANDBY_HOURS * Hour
            => Len(StandByOf(xmlFile, idx)) = 0


\* r was selected by the run rn and, when the run wrote the guide xml, its
\* channel carries the EventEnded segment starting at r's stop
CompiledWithEnded(r, rn, xml) ==
    \E idx \in 1..Len(rn.events) :
       /\ rn.events[idx] = r
       /\ rn.wrote_xml =>
            \E k \in 1..Len(xml.content) :
               /\ xml.content[k].channel = idx
               /\ xml.content[k].title = EndedTitle
               /\ xml.content[k].start = InSeconds(r.stop_utc.t)

\* C7: with the store unchanged, for two consecutive runs whose queries read
\* the clock at t1 < t2, at most 60 minutes apart, every event with
\* start < stop and t1 < stop <= t2 is selected in both runs, and each guide
\* written carries its EventEnded segment: the run at t2 >= stop still shows it.
C7_GraceSpansConsecutiveRuns ==
    [][ ( /\ run.started /\ run.db_found
          /\ run'.started /\ run'.db_found
          /\ store' = store
          /\ run.query_now < run'.query_now
          /\ run'.query_now - run.query_now <= 60 * Minute )
        => \A r \in store :
              ( /\ WellFormed(r)
                /\ run.query_now < r.stop_utc.t
                /\ r.stop_utc.t <= run'.query_now )
              => /\ CompiledWithEnded(r, run, xmlFile)
                 /\ CompiledWithEnded(r, run', xmlFile') ]_vars

\* a run at most 60 minutes after the previous one, the two straddling the
\* stop of an event that the later run still compiles with its EventEnded
C7_Witness ==
    /\ run.prev_query_now >= 0
    /\ run.wrote_xml
    /\ \E r \in store :
          /\ WellFormed(r)
          /\ run.prev_query_now < r.stop_utc.t
          /\ r.stop_utc.t <= run.query_now
          /\ run.now >= r.stop_utc.t
          /\ CompiledWithEnded(r, run, xmlFile)

\* C8: every compiled event has exactly one LiveEvent programme, covering
\* [start, stop), that carries the live marker and the live status text if
\* and only if start <= now < stop.
C8_OneLiveEventMarkedIffLive ==
    run.wrote_xml =>
      \A idx \in 1..Len(run.events) :
         LET e    == run.events[idx]
             evs  == LiveEventOf(xmlFile, idx)
             live == e.start_utc.t <= run.now /\ run.now < e.stop_utc.t
         IN  /\ Len(evs) = 1
             /\ evs[1].start = InSeconds(e.start_utc.t)
             /\ evs[1].stop = InSeconds(e.stop_utc.t)
             /\ evs[1].live <=> live
             /\ (evs[1].desc = "LIVE NOW") <=> live

\* a guide with a live event carrying the marker, an upcoming one and an
\* ended one without it
C8_Witness ==
    /\ run.wrote_xml
    /\ \E i, j \in 1..Len(run.events) :
          /\ run.events[i].start_utc.t <= run.now
          /\ run.now < run.events[i].stop_utc.t
          /\ LiveEventOf(xmlFile, i)[1].live
          /\ \/ run.events[j].start_utc.t > run.now
             \/ run.now >= run.events[j].stop_utc.t
          /\ ~LiveEventOf(xmlFile, j)[1].live

\* C9: every compiled channel has exactly one EventEnded segment, spanning
\* [stop, stop + 30 min), whether the event is upcoming, live or ended.
C9_OneEventEnded ==
    run.wrote_xml =>
      \A idx \in 1..Len(run.events) :
         LET e     == run.events[idx]
             ended == EventEndedOf(xmlFile, idx)
         IN  /\ Len(ended) = 1
             /\ ended[1].start = InSeconds(e.stop_utc.t)
             /\ ended[1].stop = InSeconds(e.stop_utc.t) + 30 * 60

\* a guide with an upcoming event and an ended one, each with its EventEnded
C9_Witness ==
    /\ run.wrote_xml
    /\ \E i, j \in 1..Len(run.events) :
          /\ run.events[i].start_utc.t > run.now
          /\ run.now >= run.events[j].stop_utc.t
          /\ Len(EventEndedOf(xmlFile, i)) = 1
          /\ Len(EventEndedOf(xmlFile, j)) = 1
          /\ EventEndedOf(xmlFile, j)[1].stop
               = InSeconds(run.events[j].stop_utc.t) + 30 * 60

\* C10: a run of main that finds no store exits with status 1 and leaves
\* both output files as they were; a run whose query returns no events
\* exits with status 0 and leaves both as they were; a run writes an output
\* file only when the query returned at least one event.
C10_ExitsBeforeOutput ==
    [][ (run'.started /\ run' # run) =>
          LET selected == get_live_and_upcoming_events(store, run'.query_now)
              wrote    == \/ run'.wrote_m3u \/ run'.wrote_xml
                          \/ m3uFile' # m3uFile \/ xmlFile' # xmlFile
          IN  /\ ~dbExists => run'.exit_status = 1 /\ ~wrote
              /\ (dbExists /\ selected = <<>>) => run'.exit_status = 0 /\ ~wrote
              /\ wrote => dbExists /\ Len(selected) >= 1 ]_vars

\* a run on an existing, filled store whose query selected nothing: status
\* 0 and no output file
C10_Witness ==
    /\ run.started /\ run.db_found
    /\ store # {}
    /\ run.events = <<>>
    /\ run.exit_status = 0
    /\ ~m3uFile.exists /\ ~xmlFile.exists


\* C11: an event with start <= now, live or ended, gets no StandBy segment.
C11_NoRetroactiveStandby ==
    run.wrote_xml =>
      \A idx \in 1..Len(run.events) :
         run.events[idx].start_utc.t <= run.now
            => Len(StandByOf(xmlFile, idx)) = 0

\* a guide with a live event and an ended one, both started at least one
\* block length ago, neither with a StandBy segment
C11_Witness ==
    /\ run.wrote_xml
    /\ \E i, j \in 1..Len(run.events) :
          /\ run.events[i].start_utc.t + STANDBY_BLOCK_DURATION_MIN * Minute <= run.now
          /\ run.now < run.events[i].stop_utc.t
          /\ run.events[j].start_utc.t + STANDBY_BLOCK_DURATION_MIN * Minute <= run.now
          /\ run.events[j].stop_utc.t <= run.now
          /\ Len(StandByOf(xmlFile, i)) = 0
          /\ Len(StandByOf(xmlFile, j)) = 0

\* the stored start_utc of a sorts before that of b, as the store compares
\* the two texts: by the second, then by what follows the seconds
StartBefore(a, b) ==
    \/ a.start_utc.t \div TicksPerSec < b.start_utc.t \div TicksPerSec
    \/ /\ a.start_utc.t \div TicksPerSec = b.start_utc.t \div TicksPerSec
       /\ SuffixRank(a.start_utc) < SuffixRank(b.start_utc)

SameStart(a, b) == a.start_utc = b.start_utc

\* a precedes b in the order (start_utc, title, id)
Precedes(a, b) ==
    \/ StartBefore(a, b)
    \/ SameStart(a, b) /\ TitleRank(a.title) < TitleRank(b.title)
    \/ SameStart(a, b) /\ a.title = b.title /\ a.id < b.id

\* the playlist and the guide number the N selected events 1..N by their
\* position in the order (start_utc, title, id), and agree on each number
NumberedInOrder ==
    LET N == Len(run.events)
    IN  /\ \A i, j \in 1..N : i < j => Precedes(run.events[i], run.events[j])
        /\ \A i, j \in 1..N : i # j => run.events[i].id # run.events[j].id
        /\ run.wrote_m3u =>
             /\ Len(m3uFile.content) = N
             /\ \A i \in 1..N :
                   /\ m3uFile.content[i].tvg_id = i
                   /\ m3uFile.content[i].url = run.events[i].id
                   /\ m3uFile.content[i].tvg_name = run.events[i].title
        /\ run.wrote_xml =>
             /\ Len(xmlFile.channels) = N
             /\ \A i \in 1..N :
                   /\ xmlFile.channels[i].id = i
                   /\ xmlFile.channels[i].display_name = run.events[i].title
                   /\ xmlFile.channels[i].id = m3uFile.content[i].tvg_id
             /\ \A k \in 1..Len(xmlFile.content) :
                   LET p == xmlFile.content[k]
                   IN  /\ p.channel \in 1..N
                       /\ p.title \notin {StandbyTitle, EndedTitle}
                            => /\ p.title = run.events[p.channel].title
                               /\ p.start = InSeconds(run.events[p.channel].start_utc.t)
                       /\ p.title = EndedTitle
                            => p.start = InSeconds(run.events[p.channel].stop_utc.t)

====
